---- MODULE Spec2Model ----
(***************************************************************************)
(* sentinel-password: the validation engine of packages/core (the seven    *)
(* validators and the validatePassword aggregator) and the Bloom filter    *)
(* generator script.                                                       *)
(*                                                                         *)
(* Strings are sequences of UTF-16 code units (what charCodeAt returns);   *)
(* messages, which are only built and compared, are TLA+ strings.          *)
(* An options object is a record whose DOMAIN holds the keys the caller    *)
(* set; a key that is absent takes the default of the destructuring.       *)
(***************************************************************************)
EXTENDS Integers, Sequences, FiniteSets, TLC

VARIABLES
    password,     \* the string the current call was given; in the hook, its password state
    options,      \* the ValidatorOptions the current call was given; the hook's options
    result,       \* what the call returned (NoResult before it returns); the hook's result
    pc,           \* "ready": the call is about to run; otherwise the operation that ran last
    bloomFilter,  \* the Int32Array of the generator: word index -> set of the bit indices set
    added,        \* the strings add() was called with
    calls,        \* the validatePassword calls made so far: arguments and report, in order
    isValidating,      \* the hook's isValidating state
    debounceTimerRef,  \* debounceTimerRef.current: a timer id, or NoTimer for null
    isMountedRef,      \* isMountedRef.current
    timers,            \* the runtime's pending timeouts: id, time left, captured newPassword
    timerCount,        \* how many timeouts setTimeout has created
    elapsed,           \* the time passed since setPassword (the input) was last called (changed)
    changes,           \* PasswordInput: <<v>> once onChange was called, v its last argument
    passwords          \* the generator script's passwords array (the lines of its input file)

hookVars ==
    <<isValidating, debounceTimerRef, isMountedRef, timers, timerCount, elapsed, changes>>

vars == <<password, options, result, pc, bloomFilter, added, calls, hookVars, passwords>>

\* null; setTimeout's ids are positive
NoTimer == 0

\* No hook is rendered: the validators are called directly.
HookIdle ==
    /\ isValidating = FALSE
    /\ debounceTimerRef = NoTimer
    /\ isMountedRef = FALSE
    /\ timers = {}
    /\ timerCount = 0
    /\ elapsed = 0
    /\ changes = <<>>

NoResult == [none |-> TRUE]

(***************************************************************************)
(* Strings                                                                 *)
(***************************************************************************)

\* All sequences over alphabet of length 0..n.
StringsUpTo(alphabet, n) == UNION {[1..k -> alphabet] : k \in 0..n}

\* 'c'.repeat(n)
Repeat(c, n) == [i \in 1..n |-> c]

\* String.prototype.toLowerCase on one code unit: A-Z, and the Cyrillic capitals
\* U+0410..U+042F the keyboard table's layouts use, move up by 32.
ToLowerChar(c) ==
    IF (c >= 65 /\ c <= 90) \/ (c >= 1040 /\ c <= 1071) THEN c + 32 ELSE c

ToLowerCase(s) == [i \in 1..Len(s) |-> ToLowerChar(s[i])]

\* String.prototype.toUpperCase on the same ranges (used to build letter-case variants).
ToUpperChar(c) ==
    IF (c >= 97 /\ c <= 122) \/ (c >= 1072 /\ c <= 1103) THEN c - 32 ELSE c

ToUpperCase(s) == [i \in 1..Len(s) |-> ToUpperChar(s[i])]

\* String.prototype.includes
Includes(s, sub) ==
    \E i \in 0..(Len(s) - Len(sub)) : \A j \in 1..Len(sub) : s[i + j] = sub[j]

\* pattern.split('').reverse().join('')
Reverse(s) == [i \in 1..Len(s) |-> s[Len(s) + 1 - i]]

\* destructuring with a default: const { key = dflt } = options
Opt(o, key, dflt) == IF key \in DOMAIN o THEN o[key] ELSE dflt

(***************************************************************************)
(* validators/length.ts                                                    *)
(***************************************************************************)

validateLengthNoMax(pw, o) ==
    LET minLength == Opt(o, "minLength", 8)
        length == Len(pw)
    IN  IF length < minLength
        THEN [passed |-> FALSE,
              message |-> "Password must be at least " \o ToString(minLength) \o " characters"]
        ELSE [passed |-> TRUE]

\* validateLength with the maxLength test ahead of the minLength test
validateLengthMaxFirst(pw, o) ==
    LET minLength == Opt(o, "minLength", 8)
        maxLength == Opt(o, "maxLength", 128)
        length == Len(pw)
    IN  IF length > maxLength
        THEN [passed |-> FALSE,
              message |-> "Password must be at most " \o ToString(maxLength) \o " characters"]
        ELSE IF length < minLength
        THEN [passed |-> FALSE,
              message |-> "Password must be at least " \o ToString(minLength) \o " characters"]
        ELSE [passed |-> TRUE]

validateLength(pw, o) ==
    LET minLength == Opt(o, "minLength", 8)
        maxLength == Opt(o, "maxLength", 128)
        length == Len(pw)
    IN  IF length < minLength
        THEN [passed |-> FALSE,
              message |-> "Password must be at least " \o ToString(minLength) \o " characters"]
        ELSE IF length > maxLength
        THEN [passed |-> FALSE,
              message |-> "Password must be at most " \o ToString(maxLength) \o " characters"]
        ELSE [passed |-> TRUE]

(***************************************************************************)
(* validators/repetition.ts                                                *)
(***************************************************************************)

RunExceedsOffByOne(count, maxRepeatedChars) == count >= maxRepeatedChars

\* if (count > maxRepeatedChars)
RunExceeds(count, maxRepeatedChars) == count > maxRepeatedChars

\* The for loop from index i (0-based, as in the code) with the loop's two locals;
\* TRUE when the loop returns the failing result.
RECURSIVE RepetitionScan(_, _, _, _, _)
RepetitionScan(pw, i, currentChar, count, maxRepeatedChars) ==
    IF i >= Len(pw) THEN FALSE
    ELSE IF pw[i + 1] = currentChar
    THEN IF RunExceeds(count + 1, maxRepeatedChars)
         THEN TRUE
         ELSE RepetitionScan(pw, i + 1, currentChar, count + 1, maxRepeatedChars)
    ELSE RepetitionScan(pw, i + 1, pw[i + 1], 1, maxRepeatedChars)

validateRepetition(pw, o) ==
    LET maxRepeatedChars == Opt(o, "maxRepeatedChars", 3)
    IN  IF Len(pw) = 0 THEN [passed |-> TRUE]
        ELSE IF RepetitionScan(pw, 1, pw[1], 1, maxRepeatedChars)
        THEN [passed |-> FALSE,
              message |-> "Password contains too many repeated characters (max "
                          \o ToString(maxRepeatedChars) \o ")"]
        ELSE [passed |-> TRUE]

(***************************************************************************)
(* validators/sequential.ts                                                *)
(***************************************************************************)

IsDescendingFirstPairOnly(charCode1, charCode2, charCode3) == charCode2 = charCode1 - 1

\* charCode2 === charCode1 + 1 && charCode3 === charCode2 + 1
IsAscending(charCode1, charCode2, charCode3) ==
    charCode2 = charCode1 + 1 /\ charCode3 = charCode2 + 1

\* charCode2 === charCode1 - 1 && charCode3 === charCode2 - 1
IsDescending(charCode1, charCode2, charCode3) ==
    charCode2 = charCode1 - 1 /\ charCode3 = charCode2 - 1

\* The for loop of hasSequentialPattern from index i (0-based).
RECURSIVE SequentialScan(_, _)
SequentialScan(str, i) ==
    IF i > Len(str) - 3 THEN FALSE
    ELSE IF IsAscending(str[i + 1], str[i + 2], str[i + 3]) THEN TRUE
    ELSE IF IsDescending(str[i + 1], str[i + 2], str[i + 3]) THEN TRUE
    ELSE SequentialScan(str, i + 1)

hasSequentialPattern(str) == SequentialScan(str, 0)

validateSequentialToggleIgnored(pw, o) ==
    IF hasSequentialPattern(pw)
    THEN [passed |-> FALSE,
          message |-> "Password contains sequential characters (e.g., abc, 123)"]
    ELSE [passed |-> TRUE]

validateSequential(pw, o) ==
    LET checkSequential == Opt(o, "checkSequential", TRUE)
    IN  IF ~checkSequential THEN [passed |-> TRUE]
        ELSE IF hasSequentialPattern(pw)
        THEN [passed |-> FALSE,
              message |-> "Password contains sequential characters (e.g., abc, 123)"]
        ELSE [passed |-> TRUE]

(***************************************************************************)
(* validators/keyboard-pattern.ts                                          *)
(***************************************************************************)

\* The table, entry by entry in source order, as code units.
KEYBOARD_PATTERNS == <<
    <<113, 119, 101, 114, 116, 121, 117, 105, 111, 112>>,
    <<97, 115, 100, 102, 103, 104, 106, 107, 108>>,
    <<122, 120, 99, 118, 98, 110, 109>>,
    <<113, 119, 101, 114, 116>>,
    <<119, 101, 114, 116, 121>>,
    <<97, 115, 100, 102, 103>>,
    <<115, 100, 102, 103, 104>>,
    <<122, 120, 99, 118, 98>>,
    <<120, 99, 118, 98, 110>>,
    <<113, 119, 101>>,
    <<97, 115, 100>>,
    <<122, 120, 99>>,
    <<114, 116, 121>>,
    <<102, 103, 104>>,
    <<99, 118, 98>>,
    <<112, 111, 105>>,
    <<108, 107, 106>>,
    <<109, 110, 98>>,
    <<49, 113, 97, 122>>,
    <<50, 119, 115, 120>>,
    <<51, 101, 100, 99>>,
    <<52, 114, 102, 118>>,
    <<53, 116, 103, 98>>,
    <<54, 121, 104, 110>>,
    <<55, 117, 106, 109>>,
    <<56, 105, 107>>,
    <<57, 111, 108>>,
    <<48, 112>>,
    <<113, 97, 122>>,
    <<119, 115, 120>>,
    <<101, 100, 99>>,
    <<122, 97, 113>>,
    <<120, 115, 119>>,
    <<99, 100, 101>>,
    <<97, 122, 101, 114, 116, 121, 117, 105, 111, 112>>,
    <<113, 115, 100, 102, 103, 104, 106, 107, 108, 109>>,
    <<119, 120, 99, 118, 98, 110>>,
    <<97, 122, 101, 114, 116>>,
    <<122, 101, 114, 116, 121>>,
    <<113, 115, 100, 102, 103>>,
    <<115, 100, 102, 103, 104>>,
    <<119, 120, 99, 118, 98>>,
    <<97, 122, 101>>,
    <<113, 115, 100>>,
    <<119, 120, 99>>,
    <<113, 119, 101, 114, 116, 122, 117, 105, 111, 112>>,
    <<97, 115, 100, 102, 103, 104, 106, 107, 108>>,
    <<121, 120, 99, 118, 98, 110, 109>>,
    <<113, 119, 101, 114, 116, 122>>,
    <<97, 115, 100, 102, 103>>,
    <<121, 120, 99, 118, 98>>,
    <<113, 119, 101>>,
    <<97, 115, 100>>,
    <<121, 120, 99>>,
    <<112, 121, 102, 103, 99, 114, 108>>,
    <<97, 111, 101, 117, 105, 100, 104, 116, 110, 115>>,
    <<113, 106, 107, 120, 98, 109, 119, 118, 122>>,
    <<97, 111, 101, 117>>,
    <<104, 116, 110, 115>>,
    <<113, 106, 107, 120>>,
    <<113, 119, 102, 112, 103, 106, 108, 117, 121>>,
    <<97, 114, 115, 116, 100, 104, 110, 101, 105, 111>>,
    <<122, 120, 99, 118, 98, 107, 109>>,
    <<97, 114, 115, 116>>,
    <<100, 104, 110, 101>>,
    <<122, 120, 99, 118>>,
    <<1081, 1094, 1091, 1082, 1077, 1085, 1075, 1096, 1097, 1079, 1093, 1098>>,
    <<1092, 1099, 1074, 1072, 1087, 1088, 1086, 1083, 1076, 1078, 1101>>,
    <<1103, 1095, 1089, 1084, 1080, 1090, 1100, 1073, 1102>>,
    <<1081, 1094, 1091, 1082, 1077, 1085>>,
    <<1092, 1099, 1074, 1072, 1087>>,
    <<1103, 1095, 1089, 1084, 1080>>,
    <<1094, 1091, 1082, 1077, 1085>>,
    <<1099, 1074, 1072, 1072>>,
    <<49, 50, 51, 52, 53, 54, 55, 56, 57, 48>>,
    <<48, 57, 56, 55, 54, 53, 52, 51, 50, 49>>,
    <<55, 56, 57>>,
    <<52, 53, 54>>,
    <<49, 50, 51>>,
    <<55, 52, 49>>,
    <<56, 53, 50>>,
    <<57, 54, 51>>,
    <<55, 52, 49, 48>>,
    <<56, 53, 50, 48>>,
    <<57, 54, 51, 48>>
>>

PatternMatchesForwardOnly(lowercase, pattern) == Includes(lowercase, pattern)

\* lowercase.includes(pattern.split('').reverse().join('')), the reversed pattern being
\* read off the pattern from its end instead of being built.
IncludesReversed(s, pattern) ==
    \E i \in 0..(Len(s) - Len(pattern)) :
        \A j \in 1..Len(pattern) : s[i + j] = pattern[Len(pattern) + 1 - j]

\* One iteration of the loop: the forward test, then the reversed one.
PatternMatches(lowercase, pattern) ==
    \/ Includes(lowercase, pattern)
    \/ IncludesReversed(lowercase, pattern)

\* The for loop over the table from entry idx (1-based), returning at the first match.
RECURSIVE KeyboardScan(_, _)
KeyboardScan(lowercase, idx) ==
    IF idx > Len(KEYBOARD_PATTERNS) THEN FALSE
    ELSE IF PatternMatches(lowercase, KEYBOARD_PATTERNS[idx]) THEN TRUE
    ELSE KeyboardScan(lowercase, idx + 1)

validateKeyboardPattern(pw, o) ==
    LET checkKeyboardPatterns == Opt(o, "checkKeyboardPatterns", TRUE)
    IN  IF ~checkKeyboardPatterns THEN [passed |-> TRUE]
        ELSE IF KeyboardScan(ToLowerCase(pw), 1)
        THEN [passed |-> FALSE, message |-> "Password contains common keyboard patterns"]
        ELSE [passed |-> TRUE]

(***************************************************************************)
(* The Bloom filter generator script (generate-bloom-filter): getHashes,   *)
(* hashString, add, test.                                                  *)
(*                                                                         *)
(* A 32-bit value is kept as its two 16-bit halves [hi, lo] (the unsigned  *)
(* value hi * 65536 + lo), so that no intermediate leaves TLC's integers.  *)
(* A word of the Int32Array is the set of the bit indices 0..31 set in it: *)
(* w |= 1 << b adds b, (w & (1 << b)) === 0 tests b \notin w.              *)
(***************************************************************************)

BLOOM_SIZE == 12000
HASH_COUNT == 7
BITS_PER_INT32 == 32
\* Math.ceil(BLOOM_SIZE / BITS_PER_INT32)
ARRAY_SIZE == (BLOOM_SIZE + BITS_PER_INT32 - 1) \div BITS_PER_INT32

\* 2^16: the weight of the high half
Half == 2^16

\* new Int32Array(ARRAY_SIZE): every word 0
EmptyFilter == [w \in 0..(ARRAY_SIZE - 1) |-> {}]

\* hash = (hash << 5) - hash + char; hash = hash | 0: 31 * hash + char, wrapped to 32 bits
HashStep(hash, char) ==
    LET lo == 31 * hash.lo + char
        hi == 31 * hash.hi + (lo \div Half)
    IN  [hi |-> hi % Half, lo |-> lo % Half]

\* Math.abs of the signed reading of a 32-bit value (the sign bit is bit 15 of hi);
\* -2^31 gives 2^31, which has the same two halves.
Abs32(hash) ==
    IF hash.hi < 32768 THEN hash
    ELSE IF hash.lo = 0 THEN [hi |-> (Half - hash.hi) % Half, lo |-> 0]
    ELSE [hi |-> Half - 1 - hash.hi, lo |-> Half - hash.lo]

\* The loop of hashString from character i (1-based).
RECURSIVE HashLoop(_, _, _)
HashLoop(str, i, hash) ==
    IF i > Len(str) THEN hash ELSE HashLoop(str, i + 1, HashStep(hash, str[i]))

hashString(str, seed) == Abs32(HashLoop(str, 1, [hi |-> 0, lo |-> seed]))

\* (hash1 + i * hash2) % size without the >>> 0
ProbePositionUnwrapped(hash1, hash2, i, size) ==
    LET lo == hash1.lo + i * hash2.lo
        hi == hash1.hi + i * hash2.hi + (lo \div Half)
    IN  ((hi % size) * (Half % size) + (lo % Half)) % size

\* ((hash1 + i * hash2) >>> 0) % size
ProbePosition(hash1, hash2, i, size) ==
    LET lo == hash1.lo + i * hash2.lo
        hi == (hash1.hi + i * hash2.hi + (lo \div Half)) % Half
    IN  ((hi % size) * (Half % size) + (lo % Half)) % size

getHashes(str, count, size) ==
    LET hash1 == hashString(str, 0)
        hash2 == hashString(str, 1)
    IN  [n \in 1..count |-> ProbePosition(hash1, hash2, n - 1, size)]

AddKeyRaw(str) == str

\* str.toLowerCase() of add
AddKey(str) == ToLowerCase(str)

\* The loop of add over hashes from entry n: bloomFilter[arrayIndex] |= 1 << bitIndex
RECURSIVE SetBits(_, _, _)
SetBits(filter, hashes, n) ==
    IF n > Len(hashes) THEN filter
    ELSE LET arrayIndex == hashes[n] \div BITS_PER_INT32
             bitIndex == hashes[n] % BITS_PER_INT32
         IN  SetBits([filter EXCEPT ![arrayIndex] = @ \cup {bitIndex}], hashes, n + 1)

\* add(str), as the filter it leaves
add(filter, str) == SetBits(filter, getHashes(AddKey(str), HASH_COUNT, BLOOM_SIZE), 1)

\* The loop of test over hashes from entry n, returning false at the first clear bit.
RECURSIVE AllBitsSet(_, _, _)
AllBitsSet(filter, hashes, n) ==
    IF n > Len(hashes) THEN TRUE
    ELSE LET arrayIndex == hashes[n] \div BITS_PER_INT32
             bitIndex == hashes[n] % BITS_PER_INT32
         IN  IF bitIndex \notin filter[arrayIndex] THEN FALSE
             ELSE AllBitsSet(filter, hashes, n + 1)

\* test(str) against the filter
test(filter, str) == AllBitsSet(filter, getHashes(ToLowerCase(str), HASH_COUNT, BLOOM_SIZE), 1)

(***************************************************************************)
(* validators/character-types.ts                                           *)
(***************************************************************************)

\* /[A-Z]/.test(password)
hasUppercase(pw) == \E i \in 1..Len(pw) : pw[i] >= 65 /\ pw[i] <= 90

\* /[a-z]/.test(password)
hasLowercase(pw) == \E i \in 1..Len(pw) : pw[i] >= 97 /\ pw[i] <= 122

\* /\d/.test(password): 0-9
hasDigit(pw) == \E i \in 1..Len(pw) : pw[i] >= 48 /\ pw[i] <= 57

\* The class ! @ # $ % ^ & * ( ) _ + - = [ ] { } ; ' : " \ | , . < > / ? as codes.
SymbolCodes == (33..47) \cup (58..64) \cup (91..95) \cup (123..125)

hasSymbol(pw) == \E i \in 1..Len(pw) : pw[i] \in SymbolCodes

\* missing.join(', ') from entry n (1-based)
RECURSIVE Join(_, _)
Join(parts, n) ==
    IF n > Len(parts) THEN ""
    ELSE IF n = Len(parts) THEN parts[n]
    ELSE parts[n] \o ", " \o Join(parts, n + 1)

\* validateCharacterTypes reporting only the first missing class
validateCharacterTypesFirstMissing(pw, o) ==
    IF Opt(o, "requireUppercase", FALSE) /\ ~hasUppercase(pw)
    THEN [passed |-> FALSE, message |-> "Password must contain at least one uppercase letter"]
    ELSE IF Opt(o, "requireLowercase", FALSE) /\ ~hasLowercase(pw)
    THEN [passed |-> FALSE, message |-> "Password must contain at least one lowercase letter"]
    ELSE IF Opt(o, "requireDigit", FALSE) /\ ~hasDigit(pw)
    THEN [passed |-> FALSE, message |-> "Password must contain at least one digit"]
    ELSE IF Opt(o, "requireSymbol", FALSE) /\ ~hasSymbol(pw)
    THEN [passed |-> FALSE, message |-> "Password must contain at least one symbol"]
    ELSE [passed |-> TRUE]

validateCharacterTypes(pw, o) ==
    LET requireUppercase == Opt(o, "requireUppercase", FALSE)
        requireLowercase == Opt(o, "requireLowercase", FALSE)
        requireDigit == Opt(o, "requireDigit", FALSE)
        requireSymbol == Opt(o, "requireSymbol", FALSE)
        missing ==
            (IF requireUppercase /\ ~hasUppercase(pw) THEN <<"uppercase letter">> ELSE <<>>)
            \o (IF requireLowercase /\ ~hasLowercase(pw) THEN <<"lowercase letter">> ELSE <<>>)
            \o (IF requireDigit /\ ~hasDigit(pw) THEN <<"digit">> ELSE <<>>)
            \o (IF requireSymbol /\ ~hasSymbol(pw) THEN <<"symbol">> ELSE <<>>)
    IN  IF Len(missing) > 0
        THEN [passed |-> FALSE,
              message |-> "Password must contain at least one " \o Join(missing, 1)]
        ELSE [passed |-> TRUE]

(***************************************************************************)
(* validators/personal-info.ts                                             *)
(***************************************************************************)

\* The code units String.prototype.trim removes.
WhiteSpace ==
    {9, 10, 11, 12, 13, 32, 160, 5760, 8232, 8233, 8239, 8287, 12288, 65279}
        \cup (8192..8202)

RECURSIVE TrimStart(_)
TrimStart(s) ==
    IF Len(s) > 0 /\ s[1] \in WhiteSpace THEN TrimStart(SubSeq(s, 2, Len(s))) ELSE s

RECURSIVE TrimEnd(_)
TrimEnd(s) ==
    IF Len(s) > 0 /\ s[Len(s)] \in WhiteSpace THEN TrimEnd(SubSeq(s, 1, Len(s) - 1)) ELSE s

Trim(s) == TrimEnd(TrimStart(s))

\* s.indexOf(c): the 0-based index of the first c, or -1
IndexOf(s, c) ==
    IF \E i \in 1..Len(s) : s[i] = c
    THEN (CHOOSE i \in 1..Len(s) : s[i] = c /\ \A j \in 1..(i - 1) : s[j] # c) - 1
    ELSE -1

extractUsername(email) ==
    LET atIndex == IndexOf(email, 64)
    IN  IF atIndex > 0 THEN SubSeq(email, 1, atIndex) ELSE email

normalizePersonalInfo(info) ==
    LET normalized == Trim(ToLowerCase(info))
    IN  IF IndexOf(normalized, 64) >= 0 THEN extractUsername(normalized) ELSE normalized

\* The for-of loop over personalInfo from entry n (1-based); TRUE when it returns the
\* failing result.
RECURSIVE PersonalInfoScan(_, _, _)
PersonalInfoScan(lowerPassword, personalInfo, n) ==
    IF n > Len(personalInfo) THEN FALSE
    ELSE LET normalized == normalizePersonalInfo(personalInfo[n])
         IN  IF Len(normalized) < 3 THEN PersonalInfoScan(lowerPassword, personalInfo, n + 1)
             ELSE IF Includes(lowerPassword, normalized) THEN TRUE
             ELSE PersonalInfoScan(lowerPassword, personalInfo, n + 1)

validatePersonalInfo(pw, o) ==
    LET personalInfo == Opt(o, "personalInfo", <<>>)
    IN  IF Len(personalInfo) = 0 \/ Len(pw) = 0 THEN [passed |-> TRUE]
        ELSE IF PersonalInfoScan(ToLowerCase(pw), personalInfo, 1)
        THEN [passed |-> FALSE, message |-> "Password contains personal information"]
        ELSE [passed |-> TRUE]

(***************************************************************************)
(* validators/common-password.ts, as the generator script emits it: the    *)
(* emitted BLOOM_BUCKETS is the generator's bloomFilter, passed here as    *)
(* filter.                                                                 *)
(***************************************************************************)

\* mightBeCommon without the toLowerCase() of its argument
mightBeCommonCaseSensitive(filter, pw) ==
    LET hashes == getHashes(pw, HASH_COUNT, BLOOM_SIZE)
    IN  \A n \in 1..Len(hashes) :
            LET arrayIndex == hashes[n] \div 32
                bitIndex == hashes[n] % 32
            IN  arrayIndex \in DOMAIN filter /\ bitIndex \in filter[arrayIndex]

\* mightBeCommon(password); a word index outside the array reads undefined
mightBeCommon(filter, pw) ==
    LET hashes == getHashes(ToLowerCase(pw), HASH_COUNT, BLOOM_SIZE)
    IN  \A n \in 1..Len(hashes) :
            LET arrayIndex == hashes[n] \div 32
                bitIndex == hashes[n] % 32
            IN  arrayIndex \in DOMAIN filter /\ bitIndex \in filter[arrayIndex]

\* validateCommonPassword returning its message with a pass as well
validateCommonPasswordMessageAlways(filter, pw, o) ==
    [passed |-> ~Opt(o, "checkCommonPasswords", TRUE) \/ Len(pw) = 0 \/ ~mightBeCommon(filter, pw),
     message |-> "Password is too common. Please choose a more unique password."]

validateCommonPassword(filter, pw, o) ==
    LET checkCommonPasswords == Opt(o, "checkCommonPasswords", TRUE)
    IN  IF ~checkCommonPasswords \/ Len(pw) = 0 THEN [passed |-> TRUE]
        ELSE IF mightBeCommon(filter, pw)
        THEN [passed |-> FALSE,
              message |-> "Password is too common. Please choose a more unique password."]
        ELSE [passed |-> TRUE]

(***************************************************************************)
(* index.ts: validatePassword                                              *)
(***************************************************************************)

STRENGTH_LABELS == <<"very-weak", "weak", "medium", "strong", "very-strong">>

\* The checks object as it is created: the seven keys, all false.
InitialChecks ==
    [length |-> FALSE, characterTypes |-> FALSE, repetition |-> FALSE,
     sequential |-> FALSE, keyboardPattern |-> FALSE, commonPassword |-> FALSE,
     personalInfo |-> FALSE]

RunOrderKeyboardFirst ==
    <<"keyboardPattern", "length", "characterTypes", "repetition", "sequential",
      "commonPassword", "personalInfo">>

\* The order in which the validators are run and their results recorded.
RunOrder ==
    <<"length", "characterTypes", "repetition", "sequential", "commonPassword",
      "personalInfo", "keyboardPattern">>

\* if (!r.passed && r.message) suggestions.push(r.message), for the validators of
\* order from entry n on
RECURSIVE CollectSuggestions(_, _, _, _)
CollectSuggestions(results, order, n, suggestions) ==
    IF n > Len(order) THEN suggestions
    ELSE LET r == results[order[n]]
         IN  CollectSuggestions(results, order, n + 1,
                 IF ~r.passed /\ "message" \in DOMAIN r /\ r.message # ""
                 THEN Append(suggestions, r.message)
                 ELSE suggestions)

AnyCheckPasses(checks) == \E id \in DOMAIN checks : checks[id]

\* Object.values(checks).every(Boolean)
AllChecksPass(checks) == \A id \in DOMAIN checks : checks[id]

ScoreUnclamped(passedChecks, totalChecks) ==
    IF totalChecks > 0 THEN (passedChecks * 5) \div totalChecks ELSE 0

\* Math.min(4, Math.floor(ratio * 5)) with ratio = passedChecks / totalChecks (0 when
\* there are no checks). 5 * passedChecks / totalChecks is an integer or at least
\* 1 / totalChecks away from one, so the floating-point floor is the integer quotient.
Score(passedChecks, totalChecks) ==
    LET scaled == IF totalChecks > 0 THEN (passedChecks * 5) \div totalChecks ELSE 0
    IN  IF scaled > 4 THEN 4 ELSE scaled

\* The label one entry below the score's
StrengthOneBelow(score) ==
    IF score \in DOMAIN STRENGTH_LABELS THEN STRENGTH_LABELS[score] ELSE "very-weak"

\* STRENGTH_LABELS[score] ?? 'very-weak'
Strength(score) ==
    IF score + 1 \in DOMAIN STRENGTH_LABELS THEN STRENGTH_LABELS[score + 1] ELSE "very-weak"

FeedbackLastAsWarning(suggestions) ==
    IF Len(suggestions) > 0
    THEN [warning |-> suggestions[Len(suggestions)], suggestions |-> suggestions]
    ELSE [warning |-> "", suggestions |-> suggestions]

\* The feedback with a warning in every report, empty when nothing is suggested
FeedbackWarningAlways(suggestions) ==
    [warning |-> IF Len(suggestions) > 0 THEN suggestions[1] ELSE "",
     suggestions |-> suggestions]

\* { ...(firstSuggestion !== undefined && { warning: firstSuggestion }), suggestions }
Feedback(suggestions) ==
    IF Len(suggestions) > 0
    THEN [warning |-> suggestions[1], suggestions |-> suggestions]
    ELSE [suggestions |-> suggestions]

validatePassword(filter, pw, o) ==
    LET results ==
            [length |-> validateLength(pw, o),
             characterTypes |-> validateCharacterTypes(pw, o),
             repetition |-> validateRepetition(pw, o),
             sequential |-> validateSequential(pw, o),
             commonPassword |-> validateCommonPassword(filter, pw, o),
             personalInfo |-> validatePersonalInfo(pw, o),
             keyboardPattern |-> validateKeyboardPattern(pw, o)]
        ran == {RunOrder[n] : n \in DOMAIN RunOrder}
        checks ==
            [id \in DOMAIN InitialChecks |->
                IF id \in ran THEN results[id].passed ELSE InitialChecks[id]]
        suggestions == CollectSuggestions(results, RunOrder, 1, <<>>)
        passedChecks == Cardinality({id \in DOMAIN checks : checks[id]})
        totalChecks == Cardinality(DOMAIN checks)
        score == Score(passedChecks, totalChecks)
    IN  [valid |-> AllChecksPass(checks),
         score |-> score,
         strength |-> Strength(score),
         feedback |-> Feedback(suggestions),
         checks |-> checks]

(***************************************************************************)
(* Calls of validateLength: passwords of every length up to MaxLengthLen   *)
(* (beyond the default maxLength of 128), minLength and maxLength set or   *)
(* left to their defaults.                                                 *)
(***************************************************************************)

MaxLengthLen == 130

LengthPasswords == {Repeat(97, n) : n \in 0..MaxLengthLen}

LengthOptions ==
    {<<>>}
    \cup {[minLength |-> m] : m \in 0..(MaxLengthLen + 1)}
    \cup {[maxLength |-> 3]}
    \cup {[minLength |-> m, maxLength |-> 3] : m \in {0, 2, 3, 4, 5}}

InitLength ==
    /\ password \in LengthPasswords
    /\ options \in LengthOptions
    /\ result = NoResult
    /\ pc = "ready"
    /\ bloomFilter = <<>>
    /\ added = {}
    /\ calls = <<>>
    /\ HookIdle
    /\ passwords = <<>>

CallValidateLength ==
    /\ pc = "ready"
    /\ result' = validateLength(password, options)
    /\ pc' = "validateLength"
    /\ UNCHANGED <<password, options, bloomFilter, added, calls, hookVars, passwords>>

NextLength == CallValidateLength

SpecLength == InitLength /\ [][NextLength]_vars

\* C7 (as stated): for all passwords p and all m,
\* validateLength(p, {minLength: m}).passed equals (length(p) >= m).
C7_AsStated ==
    (pc = "validateLength" /\ DOMAIN options = {"minLength"})
        => (result.passed <=> (Len(password) >= options.minLength))

\* C7 (amended): for all passwords p and all m, validateLength(p, {minLength: m}).passed
\* equals (length(p) >= m and length(p) <= 128), 128 being the default maxLength.
C7_LengthMinOnly ==
    (pc = "validateLength" /\ DOMAIN options = {"minLength"})
        => (result.passed <=> (Len(password) >= options.minLength /\ Len(password) <= 128))

\* A call with only minLength set has returned, for a password longer than minLength
\* and within the default maximum.
C7_Witness ==
    /\ pc = "validateLength"
    /\ DOMAIN options = {"minLength"}
    /\ options.minLength = 5
    /\ Len(password) = 6
    /\ result.passed

(***************************************************************************)
(* Calls of validateRepetition: every password over two characters, and    *)
(* maxRepeatedChars from -1 up, or left to its default.                    *)
(***************************************************************************)

MaxRepetitionLen == 5

RepetitionPasswords == StringsUpTo({97, 49}, MaxRepetitionLen)

RepetitionOptions ==
    {<<>>} \cup {[maxRepeatedChars |-> n] : n \in (-1)..(MaxRepetitionLen + 1)}

InitRepetition ==
    /\ password \in RepetitionPasswords
    /\ options \in RepetitionOptions
    /\ result = NoResult
    /\ pc = "ready"
    /\ bloomFilter = <<>>
    /\ added = {}
    /\ calls = <<>>
    /\ HookIdle
    /\ passwords = <<>>

CallValidateRepetition ==
    /\ pc = "ready"
    /\ result' = validateRepetition(password, options)
    /\ pc' = "validateRepetition"
    /\ UNCHANGED <<password, options, bloomFilter, added, calls, hookVars, passwords>>

NextRepetition == CallValidateRepetition

SpecRepetition == InitRepetition /\ [][NextRepetition]_vars

\* The password is k copies of one character (k = Len(pw), k = 0 included).
IsUniform(pw) == \A i \in 1..Len(pw) : pw[i] = pw[1]

\* C8 (as stated): for a password made of k identical characters and any
\* maxRepeatedChars, validateRepetition fails exactly when k > maxRepeatedChars.
C8_AsStated ==
    (pc = "validateRepetition" /\ IsUniform(password))
        => (~result.passed <=> Len(password) > Opt(options, "maxRepeatedChars", 3))

\* C8 (amended): for a password made of k identical characters and any maxRepeatedChars,
\* validateRepetition fails exactly when k > maxRepeatedChars and k >= 2 (a password of
\* fewer than two characters passes whatever the limit, zero and negative limits included).
C8_UniformRun ==
    (pc = "validateRepetition" /\ IsUniform(password))
        => (~result.passed <=>
                (Len(password) > Opt(options, "maxRepeatedChars", 3) /\ Len(password) >= 2))

\* validateRepetition has failed a run of four identical characters under a limit of 3.
C8_Witness ==
    /\ pc = "validateRepetition"
    /\ IsUniform(password)
    /\ Len(password) = 4
    /\ "maxRepeatedChars" \in DOMAIN options
    /\ options.maxRepeatedChars = 3
    /\ ~result.passed

(***************************************************************************)
(* Calls of validateSequential: every password over a-d and A-C, the       *)
(* toggle set either way or left to its default.                           *)
(***************************************************************************)

MaxSequentialLen == 4

SequentialPasswords == StringsUpTo({97, 98, 99, 100, 65, 66, 67}, MaxSequentialLen)

SequentialOptions == {<<>>, [checkSequential |-> TRUE], [checkSequential |-> FALSE]}

InitSequential ==
    /\ password \in SequentialPasswords
    /\ options \in SequentialOptions
    /\ result = NoResult
    /\ pc = "ready"
    /\ bloomFilter = <<>>
    /\ added = {}
    /\ calls = <<>>
    /\ HookIdle
    /\ passwords = <<>>

CallValidateSequential ==
    /\ pc = "ready"
    /\ result' = validateSequential(password, options)
    /\ pc' = "validateSequential"
    /\ UNCHANGED <<password, options, bloomFilter, added, calls, hookVars, passwords>>

NextSequential == CallValidateSequential

SpecSequential == InitSequential /\ [][NextSequential]_vars

\* Some index i has the codes at i, i+1, i+2 each rising by exactly 1, or each falling by 1.
HasThreeRun(pw) ==
    \E i \in 1..(Len(pw) - 2) :
        \/ (pw[i + 1] - pw[i] = 1 /\ pw[i + 2] - pw[i + 1] = 1)
        \/ (pw[i] - pw[i + 1] = 1 /\ pw[i + 1] - pw[i + 2] = 1)

\* C9: with checkSequential enabled, validateSequential fails exactly when the password
\* has three consecutive characters whose raw codes each increase by 1 or each decrease
\* by 1; so 'abc' and 'ABC' fail, 'aBc' passes, and passwords shorter than 3 pass.
C9_Sequential ==
    (pc = "validateSequential" /\ Opt(options, "checkSequential", TRUE))
        => /\ ~result.passed <=> HasThreeRun(password)
           /\ password \in {<<97, 98, 99>>, <<65, 66, 67>>} => ~result.passed
           /\ password = <<97, 66, 99>> => result.passed
           /\ Len(password) < 3 => result.passed

\* validateSequential has failed a password whose only run is a descending one ('acba').
C9_Witness ==
    /\ pc = "validateSequential"
    /\ options = <<>>
    /\ password = <<97, 99, 98, 97>>
    /\ ~result.passed

(***************************************************************************)
(* Calls of validateKeyboardPattern: every password over q w e Q W E 0 p,  *)
(* the toggle set either way or left to its default.                       *)
(***************************************************************************)

MaxKeyboardLen == 3

KeyboardPasswords == StringsUpTo({113, 119, 101, 81, 87, 69, 48, 112}, MaxKeyboardLen)

KeyboardOptions ==
    {<<>>, [checkKeyboardPatterns |-> TRUE], [checkKeyboardPatterns |-> FALSE]}

InitKeyboard ==
    /\ password \in KeyboardPasswords
    /\ options \in KeyboardOptions
    /\ result = NoResult
    /\ pc = "ready"
    /\ bloomFilter = <<>>
    /\ added = {}
    /\ calls = <<>>
    /\ HookIdle
    /\ passwords = <<>>

CallValidateKeyboardPattern ==
    /\ pc = "ready"
    /\ result' = validateKeyboardPattern(password, options)
    /\ pc' = "validateKeyboardPattern"
    /\ UNCHANGED <<password, options, bloomFilter, added, calls, hookVars, passwords>>

NextKeyboard == CallValidateKeyboardPattern

SpecKeyboard == InitKeyboard /\ [][NextKeyboard]_vars

\* The table's entries and their character reversals, as a set.
PatternsAndReversals ==
    {KEYBOARD_PATTERNS[i] : i \in DOMAIN KEYBOARD_PATTERNS}
        \cup {Reverse(KEYBOARD_PATTERNS[i]) : i \in DOMAIN KEYBOARD_PATTERNS}

\* C10: with checkKeyboardPatterns enabled, validateKeyboardPattern fails exactly when
\* the lower-cased password contains, as a substring, a table entry or the reversal of
\* one; so the result is that of the lower-cased password, whatever the letter case.
C10_KeyboardPattern ==
    (pc = "validateKeyboardPattern" /\ Opt(options, "checkKeyboardPatterns", TRUE))
        => /\ ~result.passed <=>
                  \E p \in PatternsAndReversals : Includes(ToLowerCase(password), p)
           /\ result = validateKeyboardPattern(ToLowerCase(password), options)
           /\ result = validateKeyboardPattern(ToUpperCase(password), options)

\* validateKeyboardPattern has failed an upper-case password holding a reversed entry
\* ('EWQ': 'ewq' is 'qwe' reversed).
C10_Witness ==
    /\ pc = "validateKeyboardPattern"
    /\ options = <<>>
    /\ password = <<69, 87, 81>>
    /\ ~result.passed

(***************************************************************************)
(* A run of the generator: add() and test() called in any order on strings *)
(* in several letter cases ('password', 'Password', 'PASSWORD', 'qwerty',  *)
(* 'QwErTy', '123456', 'abc'); 'dragon' is tested but never added.         *)
(***************************************************************************)

BloomAddStrings == {
    <<112, 97, 115, 115, 119, 111, 114, 100>>,
    <<80, 97, 115, 115, 119, 111, 114, 100>>,
    <<80, 65, 83, 83, 87, 79, 82, 68>>,
    <<113, 119, 101, 114, 116, 121>>,
    <<81, 119, 69, 114, 84, 121>>,
    <<49, 50, 51, 52, 53, 54>>,
    <<97, 98, 99>> }

BloomTestStrings == BloomAddStrings \cup {ToUpperCase(s) : s \in BloomAddStrings}
                        \cup {<<100, 114, 97, 103, 111, 110>>}

InitBloom ==
    /\ password = <<>>
    /\ options = <<>>
    /\ result = NoResult
    /\ pc = "ready"
    /\ bloomFilter = EmptyFilter
    /\ added = {}
    /\ calls = <<>>
    /\ HookIdle
    /\ passwords = <<>>

Add(str) ==
    /\ bloomFilter' = add(bloomFilter, str)
    /\ added' = added \cup {str}
    /\ password' = str
    /\ result' = NoResult
    /\ pc' = "add"
    /\ UNCHANGED <<options, calls, hookVars, passwords>>

Test(str) ==
    /\ result' = test(bloomFilter, str)
    /\ password' = str
    /\ pc' = "test"
    /\ UNCHANGED <<options, bloomFilter, added, calls, hookVars, passwords>>

NextBloom ==
    \/ \E str \in BloomAddStrings : Add(str)
    \/ \E str \in BloomTestStrings : Test(str)

SpecBloom == InitBloom /\ [][NextBloom]_vars

\* The string is a letter-case variant of a string that was added.
WasAdded(str) == \E a \in added : ToLowerCase(a) = ToLowerCase(str)

NoBitCleared == \A w \in DOMAIN bloomFilter : bloomFilter[w] \subseteq bloomFilter'[w]

\* C6: after any sequence of add operations no bit is ever cleared, and every string
\* that was added tests as present in any letter case (no false negatives).
C6_NoFalseNegatives ==
    /\ []((pc = "test" /\ WasAdded(password)) => result = TRUE)
    /\ [][NoBitCleared]_vars

\* test() has answered true for 'PASSWORD' when only 'Password' was added.
C6_Witness ==
    /\ pc = "test"
    /\ password = <<80, 65, 83, 83, 87, 79, 82, 68>>
    /\ added = {<<80, 97, 115, 115, 119, 111, 114, 100>>}
    /\ result = TRUE

(***************************************************************************)
(* Calls of validatePassword. The filter is the one the generator leaves   *)
(* after adding a corpus; the corpus file is not part of the repository,   *)
(* so the corpus here is a few entries of the list the earlier             *)
(* Set-based validator carried ('password', '123456', 'qwerty', '1234').   *)
(* Passwords: every string over 1 2 3 a A up to MaxValidateLen, and        *)
(* '1234' and 'password'. Policies: each group of options set or left to   *)
(* its defaults.                                                           *)
(***************************************************************************)

CommonCorpus == <<
    <<112, 97, 115, 115, 119, 111, 114, 100>>,
    <<49, 50, 51, 52, 53, 54>>,
    <<113, 119, 101, 114, 116, 121>>,
    <<49, 50, 51, 52>> >>

\* for (const password of passwords) add(password), from entry n (1-based)
RECURSIVE BuildFilter(_, _, _)
BuildFilter(filter, entries, n) ==
    IF n > Len(entries) THEN filter
    ELSE BuildFilter(add(filter, entries[n]), entries, n + 1)

\* The bit array the generator writes out for the corpus.
BLOOM_BUCKETS == BuildFilter(EmptyFilter, CommonCorpus, 1)

MaxValidateLen == 3

ValidatePasswords ==
    StringsUpTo({49, 50, 51, 97, 65}, MaxValidateLen)
        \cup {<<49, 50, 51, 52>>, <<112, 97, 115, 115, 119, 111, 114, 100>>}

LengthChoices == {<<>>, [minLength |-> 2], [minLength |-> 2, maxLength |-> 2]}

CharacterTypeChoices == {<<>>, [requireUppercase |-> TRUE, requireDigit |-> TRUE]}

RepetitionChoices == {<<>>, [maxRepeatedChars |-> 1]}

ToggleChoices ==
    {<<>>,
     [checkSequential |-> FALSE],
     [checkKeyboardPatterns |-> FALSE, checkCommonPasswords |-> FALSE],
     [checkSequential |-> FALSE, checkKeyboardPatterns |-> FALSE,
      checkCommonPasswords |-> FALSE]}

\* [' Aa1@24 ', '12', '234']: an e-mail address whose local part is 'aa1', a short entry
\* and a part of '1234'
PersonalInfoChoices ==
    {<<>>, [personalInfo |-> <<<<32, 65, 97, 49, 64, 50, 52, 32>>, <<49, 50>>, <<50, 51, 52>>>>]}

ValidateOptions ==
    {a @@ b @@ c @@ d @@ e :
        a \in LengthChoices, b \in CharacterTypeChoices, c \in RepetitionChoices,
        d \in ToggleChoices, e \in PersonalInfoChoices}

\* A call that records the password it was given in the bit array
BucketsWithPassword(filter, pw) == add(filter, pw)

\* BLOOM_BUCKETS after a call: mightBeCommon reads the array and nothing writes it
BucketsAfterCall(filter, pw) == filter

InitValidate ==
    /\ password \in ValidatePasswords
    /\ options \in ValidateOptions
    /\ result = NoResult
    /\ pc = "ready"
    /\ bloomFilter = BLOOM_BUCKETS
    /\ added = {CommonCorpus[n] : n \in DOMAIN CommonCorpus}
    /\ calls = <<>>
    /\ HookIdle
    /\ passwords = <<>>

CallValidatePassword ==
    /\ pc = "ready"
    /\ result' = validatePassword(bloomFilter, password, options)
    /\ pc' = "validatePassword"
    /\ UNCHANGED <<password, options, bloomFilter, added, calls, hookVars, passwords>>

NextValidate == CallValidatePassword

SpecValidate == InitValidate /\ [][NextValidate]_vars

SevenChecks ==
    {"length", "characterTypes", "repetition", "sequential", "keyboardPattern",
     "commonPassword", "personalInfo"}

\* The number of true entries of the report's checks.
PassedCount == Cardinality({id \in DOMAIN result.checks : result.checks[id]})

\* C1: the report of validatePassword has valid = true exactly when all seven entries
\* of checks are true.
C1_ValidIffAllChecks ==
    pc = "validatePassword"
        => (result.valid <=> \A id \in SevenChecks : result.checks[id] = TRUE)

\* validatePassword has returned a valid report.
C1_Witness == pc = "validatePassword" /\ result.valid /\ Len(password) = 3

OwnResults ==
    << <<"length", validateLength(password, options)>>,
       <<"characterTypes", validateCharacterTypes(password, options)>>,
       <<"repetition", validateRepetition(password, options)>>,
       <<"sequential", validateSequential(password, options)>>,
       <<"commonPassword", validateCommonPassword(bloomFilter, password, options)>>,
       <<"personalInfo", validatePersonalInfo(password, options)>>,
       <<"keyboardPattern", validateKeyboardPattern(password, options)>> >>

Failed(entry) == ~entry[2].passed

C4_WarningIffSuggestions ==
    pc = "validatePassword"
        => /\ "warning" \in DOMAIN result.feedback <=> Len(result.feedback.suggestions) > 0
           /\ "warning" \in DOMAIN result.feedback
                  => result.feedback.warning = result.feedback.suggestions[1]

\* validatePassword has returned a warning with two or more differing suggestions.
C4_Witness ==
    /\ pc = "validatePassword"
    /\ Len(result.feedback.suggestions) >= 2
    /\ "warning" \in DOMAIN result.feedback
    /\ result.feedback.suggestions[1] # result.feedback.suggestions[2]

\* C5: checks contains exactly the seven keys whatever toggles are set, and a check
\* disabled by its toggle (checkSequential, checkKeyboardPatterns, checkCommonPasswords
\* = false) is reported as true.
C5_SevenKeys ==
    pc = "validatePassword"
        => /\ DOMAIN result.checks = SevenChecks
           /\ \A id \in SevenChecks : result.checks[id] \in BOOLEAN
           /\ ~Opt(options, "checkSequential", TRUE) => result.checks.sequential
           /\ ~Opt(options, "checkKeyboardPatterns", TRUE) => result.checks.keyboardPattern
           /\ ~Opt(options, "checkCommonPasswords", TRUE) => result.checks.commonPassword

\* validatePassword has reported '1234' (sequential, a keyboard run and a common
\* password) with the three toggles off.
C5_Witness ==
    /\ pc = "validatePassword"
    /\ password = <<49, 50, 51, 52>>
    /\ ~Opt(options, "checkSequential", TRUE)
    /\ ~Opt(options, "checkKeyboardPatterns", TRUE)
    /\ ~Opt(options, "checkCommonPasswords", TRUE)
    /\ result.checks.sequential /\ result.checks.keyboardPattern
    /\ result.checks.commonPassword

(***************************************************************************)
(* Calls of validatePersonalInfo: every password over a b A @ up to        *)
(* MaxPersonalLen, personalInfo absent, empty, or one or two entries of    *)
(* 'ab', 'abc', ' ABA ', 'Ab@b', 'aba@b', '@ab', '@aba'.                   *)
(***************************************************************************)

MaxPersonalLen == 4

PersonalPasswords == StringsUpTo({97, 98, 65, 64}, MaxPersonalLen)

PersonalEntries == {
    <<97, 98>>,
    <<97, 98, 99>>,
    <<32, 65, 66, 65, 32>>,
    <<65, 98, 64, 98>>,
    <<97, 98, 97, 64, 98>>,
    <<64, 97, 98>>,
    <<64, 97, 98, 97>> }

PersonalOptions ==
    {<<>>, [personalInfo |-> <<>>]}
        \cup {[personalInfo |-> <<e>>] : e \in PersonalEntries}
        \cup {[personalInfo |-> <<<<97, 98>>, e>>] : e \in PersonalEntries}

InitPersonal ==
    /\ password \in PersonalPasswords
    /\ options \in PersonalOptions
    /\ result = NoResult
    /\ pc = "ready"
    /\ bloomFilter = <<>>
    /\ added = {}
    /\ calls = <<>>
    /\ HookIdle
    /\ passwords = <<>>

CallValidatePersonalInfo ==
    /\ pc = "ready"
    /\ result' = validatePersonalInfo(password, options)
    /\ pc' = "validatePersonalInfo"
    /\ UNCHANGED <<password, options, bloomFilter, added, calls, hookVars, passwords>>

NextPersonal == CallValidatePersonalInfo

SpecPersonal == InitPersonal /\ [][NextPersonal]_vars

\* An entry lower-cased and trimmed, then replaced by what precedes its first '@' if
\* it contains one.
BeforeFirstAt(entry) ==
    LET normalized == Trim(ToLowerCase(entry))
    IN  IF \E i \in 1..Len(normalized) : normalized[i] = 64
        THEN SubSeq(normalized, 1,
                 (CHOOSE i \in 1..Len(normalized) :
                      normalized[i] = 64 /\ \A j \in 1..(i - 1) : normalized[j] # 64) - 1)
        ELSE normalized

\* C11: validatePersonalInfo fails exactly when the password is non-empty and some
\* personalInfo entry, lower-cased and trimmed and then replaced by the substring before
\* its first '@' if it contains '@', has length at least 3 and is a substring of the
\* lower-cased password.
C11_AsStated ==
    pc = "validatePersonalInfo"
        => LET personalInfo == Opt(options, "personalInfo", <<>>)
           IN  ~result.passed <=>
                   /\ Len(password) > 0
                   /\ \E n \in DOMAIN personalInfo :
                          /\ Len(BeforeFirstAt(personalInfo[n])) >= 3
                          /\ Includes(ToLowerCase(password), BeforeFirstAt(personalInfo[n]))

(***************************************************************************)
(* Calls of validateCommonPassword against the bit array of the corpus:    *)
(* every letter-case variant of 'qwerty', every string over q Q 1 2 up to  *)
(* MaxCommonLen, '1234' and '123456'; checkCommonPasswords absent, true    *)
(* or false.                                                               *)
(***************************************************************************)

MaxCommonLen == 3

CaseVariants(word) ==
    {[i \in 1..Len(word) |-> IF i \in upper THEN ToUpperChar(word[i]) ELSE word[i]] :
         upper \in SUBSET (1..Len(word))}

CommonPasswords ==
    CaseVariants(CommonCorpus[3])
        \cup StringsUpTo({113, 81, 49, 50}, MaxCommonLen)
        \cup {CommonCorpus[2], CommonCorpus[4]}

CommonOptions ==
    {<<>>, [checkCommonPasswords |-> TRUE], [checkCommonPasswords |-> FALSE]}

InitCommon ==
    /\ password \in CommonPasswords
    /\ options \in CommonOptions
    /\ result = NoResult
    /\ pc = "ready"
    /\ bloomFilter = BLOOM_BUCKETS
    /\ added = {}
    /\ calls = <<>>
    /\ HookIdle
    /\ passwords = <<>>

CallValidateCommonPassword ==
    /\ pc = "ready"
    /\ result' = validateCommonPassword(bloomFilter, password, options)
    /\ pc' = "validateCommonPassword"
    /\ UNCHANGED <<password, options, bloomFilter, added, calls, hookVars, passwords>>

NextCommon == CallValidateCommonPassword

SpecCommon == InitCommon /\ [][NextCommon]_vars

\* C12: validateCommonPassword fails exactly when checkCommonPasswords is not false, the
\* password is non-empty and the membership test on the lower-cased password answers
\* present; so the empty password always passes and every letter-case variant of a
\* password gets the same result.
C12_CommonPassword ==
    pc = "validateCommonPassword"
        => /\ ~result.passed <=>
                  /\ Opt(options, "checkCommonPasswords", TRUE) # FALSE
                  /\ Len(password) > 0
                  /\ test(bloomFilter, ToLowerCase(password))
           /\ Len(password) = 0 => result.passed
           /\ \A variant \in CaseVariants(ToLowerCase(password)) :
                  validateCommonPassword(bloomFilter, variant, options) = result

\* A mixed-case variant of a corpus word is rejected with the check enabled.
C12_Witness ==
    /\ pc = "validateCommonPassword"
    /\ password # ToLowerCase(password)
    /\ ToLowerCase(password) = CommonCorpus[3]
    /\ ~result.passed

(***************************************************************************)
(* Calls of validateCharacterTypes: every password over A a 1 ! ~ and      *)
(* U+00C9 up to MaxCharacterLen, each of the four flags absent, true or    *)
(* false.                                                                  *)
(***************************************************************************)

MaxCharacterLen == 3

CharacterPasswords == StringsUpTo({65, 97, 49, 33, 126, 201}, MaxCharacterLen)

FlagChoices(key) == {<<>>, [x \in {key} |-> TRUE], [x \in {key} |-> FALSE]}

CharacterOptions ==
    {u @@ l @@ d @@ s :
        u \in FlagChoices("requireUppercase"), l \in FlagChoices("requireLowercase"),
        d \in FlagChoices("requireDigit"), s \in FlagChoices("requireSymbol")}

InitCharacter ==
    /\ password \in CharacterPasswords
    /\ options \in CharacterOptions
    /\ result = NoResult
    /\ pc = "ready"
    /\ bloomFilter = <<>>
    /\ added = {}
    /\ calls = <<>>
    /\ HookIdle
    /\ passwords = <<>>

CallValidateCharacterTypes ==
    /\ pc = "ready"
    /\ result' = validateCharacterTypes(password, options)
    /\ pc' = "validateCharacterTypes"
    /\ UNCHANGED <<password, options, bloomFilter, added, calls, hookVars, passwords>>

NextCharacter == CallValidateCharacterTypes

SpecCharacter == InitCharacter /\ [][NextCharacter]_vars

\* The four classes in requirement order: policy flag, member code units, name.
CharacterClasses == <<
    [flag |-> "requireUppercase", members |-> 65..90, name |-> "uppercase letter"],
    [flag |-> "requireLowercase", members |-> 97..122, name |-> "lowercase letter"],
    [flag |-> "requireDigit", members |-> 48..57, name |-> "digit"],
    [flag |-> "requireSymbol", members |-> SymbolCodes, name |-> "symbol"] >>

\* The required classes with no member in the password, in requirement order.
AbsentRequired ==
    SelectSeq(CharacterClasses,
              LAMBDA class :
                  /\ Opt(options, class.flag, FALSE)
                  /\ \A i \in 1..Len(password) : password[i] \notin class.members)

RECURSIVE ClassNames(_, _)
ClassNames(classes, n) ==
    IF n > Len(classes) THEN ""
    ELSE (IF n > 1 THEN ", " ELSE "") \o classes[n].name \o ClassNames(classes, n + 1)

MaxChecksLen == 3

ChecksPasswords ==
    StringsUpTo({49, 50, 97, 65}, MaxChecksLen)
        \cup {<<49, 50, 51>>, <<113, 119, 101>>, CommonCorpus[4]}

InitChecks ==
    /\ password \in ChecksPasswords
    /\ options \in ValidateOptions
    /\ result = NoResult
    /\ pc = "ready"
    /\ bloomFilter = BLOOM_BUCKETS
    /\ added = {}
    /\ calls = <<>>
    /\ HookIdle
    /\ passwords = <<>>

NextChecks ==
    \/ CallValidateLength
    \/ CallValidateCharacterTypes
    \/ CallValidateRepetition
    \/ CallValidateSequential
    \/ CallValidateCommonPassword
    \/ CallValidatePersonalInfo
    \/ CallValidateKeyboardPattern

SpecChecks == InitChecks /\ [][NextChecks]_vars

SevenValidators ==
    {"validateLength", "validateCharacterTypes", "validateRepetition", "validateSequential",
     "validateCommonPassword", "validatePersonalInfo", "validateKeyboardPattern"}

\* C14: each of the seven checks, for every password and policy, returns a result whose
\* message is present exactly when passed is false.
C14_MessageIffFailed ==
    pc \in SevenValidators => ("message" \in DOMAIN result <=> ~result.passed)

\* validateKeyboardPattern has failed 'qwe', and the failure carries its message.
C14_Witness ==
    /\ pc = "validateKeyboardPattern"
    /\ password = <<113, 119, 101>>
    /\ ~result.passed
    /\ "message" \in DOMAIN result

\* C15: for every score the report's strength is the entry at index score (from 0) of
\* the table very-weak, weak, medium, strong, very-strong.
C15_StrengthLabel ==
    pc = "validatePassword"
        => /\ result.score \in 0..4
           /\ result.strength
                  = <<"very-weak", "weak", "medium", "strong", "very-strong">>[result.score + 1]

\* validatePassword has returned the lowest score, for '1234' failing six checks.
C15_Witness ==
    /\ pc = "validatePassword"
    /\ result.score = 0
    /\ result.strength = "very-weak"

(***************************************************************************)
(* A caller making up to MaxCalls calls of validatePassword one after the  *)
(* other, each with any of the passwords '', '1234', 'aA1', 'qwe' and any  *)
(* of three policies, against the module's one bit array.                  *)
(***************************************************************************)

MaxCalls == 3

SessionPasswords == {<<>>, CommonCorpus[4], <<97, 65, 49>>, <<113, 119, 101>>}

SessionOptions ==
    {<<>>, [checkCommonPasswords |-> FALSE], [minLength |-> 2, requireUppercase |-> TRUE]}

InitSession ==
    /\ password = <<>>
    /\ options = <<>>
    /\ result = NoResult
    /\ pc = "ready"
    /\ bloomFilter = BLOOM_BUCKETS
    /\ added = {}
    /\ calls = <<>>
    /\ HookIdle
    /\ passwords = <<>>

\* One call validatePassword(pw, o): the report, and the policy object and the bit array
\* as the call leaves them.
ValidatePasswordCall(pw, o) ==
    /\ Len(calls) < MaxCalls
    /\ LET report == validatePassword(bloomFilter, pw, o)
       IN  /\ result' = report
           /\ calls' = Append(calls, [password |-> pw, options |-> o, report |-> report])
    /\ password' = pw
    /\ options' = o
    /\ bloomFilter' = BucketsAfterCall(bloomFilter, pw)
    /\ pc' = "validatePassword"
    /\ UNCHANGED <<added, hookVars, passwords>>

NextSession ==
    \E pw \in SessionPasswords, o \in SessionOptions : ValidatePasswordCall(pw, o)

SpecSession == InitSession /\ [][NextSession]_vars

C17_AsStated ==
    (pc = "validatePassword" /\ password = CommonCorpus[1] /\ options = <<>>)
        => /\ \A id \in SevenChecks : result.checks[id] <=> id # "commonPassword"
           /\ result.score = 1
           /\ result.strength = "weak"

(***************************************************************************)
(* packages/react: usePasswordValidator                                    *)
(*                                                                         *)
(* One rendered hook.  password, result and isValidating are its useState  *)
(* values, debounceTimerRef and isMountedRef its refs, options the object  *)
(* it was rendered with.  Each handler runs to its end and the component   *)
(* re-renders before the next one, so a handler sees the state the one     *)
(* before left.  timers is the runtime's table of pending timeouts; time   *)
(* passes in steps of TickMs and a timeout runs once its delay is used up. *)
(***************************************************************************)

DEFAULT_DEBOUNCE_MS == 300

TickMs == 100

MaxTimers == 3

MaxValidations == 2

MaxTicks == 3

HookKeys == {"debounceMs", "validateOnMount", "validateOnChange"}

\* const { debounceMs, validateOnMount, validateOnChange, ...validatorOptions } = options
validatorOptions(o) == [key \in (DOMAIN o) \ HookKeys |-> o[key]]

\* clearTimeout that leaves the timeout pending
clearTimeoutIgnored(pending, id) == pending

\* clearTimeout(id): the timeout with that id, if it is still pending, is dropped
clearTimeout(pending, id) == {timer \in pending : timer.id # id}

\* setTimeout(callback, ms), the callback having captured newPassword
setTimeout(pending, id, newPassword, ms) ==
    pending \cup {[id |-> id, remaining |-> ms, newPassword |-> newPassword]}

\* The log of validatePassword calls with one more call.
Logged(log, pw, o, report) ==
    Append(log, [password |-> pw, options |-> o, report |-> report])

HookPasswords == {<<>>, <<97>>, <<97, 65, 49>>}

HookOptions ==
    {a @@ b @@ c @@ d :
        a \in {<<>>, [debounceMs |-> 0], [debounceMs |-> TickMs]},
        b \in {<<>>, [validateOnChange |-> TRUE]},
        c \in {<<>>, [validateOnMount |-> TRUE]},
        d \in {<<>>, [minLength |-> 1]}}

\* The first render: useState('') , useState(undefined), useState(false), useRef(null),
\* useRef(false); no effect has run yet.
InitHook ==
    /\ password = <<>>
    /\ options \in HookOptions
    /\ result = NoResult
    /\ pc = "ready"
    /\ bloomFilter = BLOOM_BUCKETS
    /\ added = {}
    /\ calls = <<>>
    /\ HookIdle
    /\ passwords = <<>>

Mounted == pc \notin {"ready", "unmount"}

\* useEffect: validate on mount if requested (runs once, after the first render)
MountEffect ==
    /\ pc = "ready"
    /\ ~isMountedRef
    /\ isMountedRef' = TRUE
    /\ IF Opt(options, "validateOnMount", FALSE) /\ Len(password) > 0
       THEN LET report == validatePassword(bloomFilter, password, validatorOptions(options))
            IN  /\ result' = report
                /\ calls' = Logged(calls, password, validatorOptions(options), report)
                /\ isValidating' = FALSE
       ELSE UNCHANGED <<result, calls, isValidating>>
    /\ pc' = "mount"
    /\ UNCHANGED <<password, options, bloomFilter, added, changes, passwords, debounceTimerRef, timers,
                   timerCount, elapsed>>

\* validate(): validation of the current password
validate ==
    /\ Mounted
    /\ Len(calls) < MaxValidations
    /\ LET report == validatePassword(bloomFilter, password, validatorOptions(options))
       IN  /\ result' = report
           /\ calls' = Logged(calls, password, validatorOptions(options), report)
    /\ isValidating' = FALSE
    /\ pc' = "validate"
    /\ UNCHANGED <<password, options, bloomFilter, added, changes, passwords, debounceTimerRef, isMountedRef,
                   timers, timerCount, elapsed>>

\* setPassword(newPassword)
setPassword(newPassword) ==
    LET debounceMs == Opt(options, "debounceMs", DEFAULT_DEBOUNCE_MS)
        validateOnChange == Opt(options, "validateOnChange", FALSE)
        cleared ==
            IF debounceTimerRef # NoTimer THEN clearTimeout(timers, debounceTimerRef)
            ELSE timers
    IN  /\ Mounted
        /\ password' = newPassword
        /\ elapsed' = 0
        /\ pc' = "setPassword"
        /\ IF validateOnChange /\ debounceMs = 0
           THEN /\ Len(calls) < MaxValidations
                /\ LET report ==
                           validatePassword(bloomFilter, newPassword, validatorOptions(options))
                   IN  /\ result' = report
                       /\ calls' = Logged(calls, newPassword, validatorOptions(options), report)
                /\ isValidating' = FALSE
                /\ debounceTimerRef' = NoTimer
                /\ timers' = cleared
                /\ UNCHANGED timerCount
           ELSE IF debounceMs > 0
           THEN /\ timerCount < MaxTimers
                /\ isValidating' = TRUE
                /\ timerCount' = timerCount + 1
                /\ debounceTimerRef' = timerCount + 1
                /\ timers' = setTimeout(cleared, timerCount + 1, newPassword, debounceMs)
                /\ UNCHANGED <<result, calls>>
           ELSE /\ debounceTimerRef' = NoTimer
                /\ timers' = cleared
                /\ UNCHANGED <<result, calls, isValidating, timerCount>>
        /\ UNCHANGED <<options, bloomFilter, added, changes, passwords, isMountedRef>>

\* The callback of a timeout whose delay is used up.
TimeoutCallback(timer) ==
    /\ timer \in timers
    /\ timer.remaining <= 0
    /\ LET report ==
               validatePassword(bloomFilter, timer.newPassword, validatorOptions(options))
       IN  /\ result' = report
           /\ calls' = Logged(calls, timer.newPassword, validatorOptions(options), report)
    /\ isValidating' = FALSE
    /\ debounceTimerRef' = NoTimer
    /\ timers' = timers \ {timer}
    /\ pc' = "timeout"
    /\ UNCHANGED <<password, options, bloomFilter, added, changes, passwords, isMountedRef, timerCount, elapsed>>

\* reset() without its clearTimeout
resetKeepingTimer ==
    /\ Mounted
    /\ debounceTimerRef' = NoTimer
    /\ password' = <<>>
    /\ result' = NoResult
    /\ isValidating' = FALSE
    /\ pc' = "reset"
    /\ UNCHANGED <<options, bloomFilter, added, changes, passwords, calls, isMountedRef, timers, timerCount,
                   elapsed>>

\* reset()
reset ==
    /\ Mounted
    /\ timers' = IF debounceTimerRef # NoTimer THEN clearTimeout(timers, debounceTimerRef)
                 ELSE timers
    /\ debounceTimerRef' = NoTimer
    /\ password' = <<>>
    /\ result' = NoResult
    /\ isValidating' = FALSE
    /\ pc' = "reset"
    /\ UNCHANGED <<options, bloomFilter, added, changes, passwords, calls, isMountedRef, timerCount, elapsed>>

\* An unmount that leaves the timeout pending
UnmountWithoutCleanup ==
    /\ Mounted
    /\ pc' = "unmount"
    /\ UNCHANGED <<password, options, result, bloomFilter, added, changes, passwords, calls, isValidating,
                   debounceTimerRef, isMountedRef, timers, timerCount, elapsed>>

\* The cleanup of the unmount effect: the timeout is cleared, the ref keeps its id.
UnmountCleanup ==
    /\ Mounted
    /\ timers' = IF debounceTimerRef # NoTimer THEN clearTimeout(timers, debounceTimerRef)
                 ELSE timers
    /\ pc' = "unmount"
    /\ UNCHANGED <<password, options, result, bloomFilter, added, changes, passwords, calls, isValidating,
                   debounceTimerRef, isMountedRef, timerCount, elapsed>>

\* TickMs of time pass; no timeout is overdue.
Tick ==
    /\ pc # "ready"
    /\ \A timer \in timers : timer.remaining > 0
    /\ elapsed < MaxTicks * TickMs
    /\ elapsed' = elapsed + TickMs
    /\ timers' = {[timer EXCEPT !.remaining = @ - TickMs] : timer \in timers}
    /\ UNCHANGED <<password, options, result, pc, bloomFilter, added, changes, passwords, calls, isValidating,
                   debounceTimerRef, isMountedRef, timerCount>>

NextHook ==
    \/ MountEffect
    \/ \E newPassword \in HookPasswords : setPassword(newPassword)
    \/ \E timer \in timers : TimeoutCallback(timer)
    \/ validate
    \/ reset
    \/ UnmountCleanup
    \/ Tick

SpecHook == InitHook /\ [][NextHook]_vars

\* The hook's debounceMs.
DebounceMs == Opt(options, "debounceMs", DEFAULT_DEBOUNCE_MS)

\* The step is a call of setPassword (the only step that leaves elapsed at 0 with
\* setPassword as the last operation).
SetPasswordStep == pc' = "setPassword" /\ elapsed' = 0

\* The step is the callback of a timeout.
TimeoutStep == pc' = "timeout" /\ calls' # calls

\* C18: with debounceMs > 0, at most one debounce timer is pending at any time; a call
\* of setPassword validates nothing and leaves exactly one timer pending; as long as the
\* delay after the last setPassword has not elapsed no result is produced (short of a
\* validate() call); and the timeout then runs exactly one validation, of the last
\* password set, and leaves no timer behind.
C18_Debounce ==
    /\ [](DebounceMs > 0 => Cardinality(timers) <= 1)
    /\ [][(DebounceMs > 0 /\ SetPasswordStep)
              => /\ result' = result
                 /\ calls' = calls
                 /\ Cardinality(timers') = 1]_vars
    /\ [][(DebounceMs > 0 /\ pc = "setPassword" /\ elapsed < DebounceMs
               /\ pc' \notin {"validate", "reset"})
              => result' = result /\ calls' = calls]_vars
    /\ [][(DebounceMs > 0 /\ TimeoutStep)
              => /\ elapsed >= DebounceMs
                 /\ Len(calls') = Len(calls) + 1
                 /\ calls'[Len(calls')].password = password
                 /\ result' = validatePassword(bloomFilter, password, validatorOptions(options))
                 /\ timers' = {}]_vars

\* Three setPassword calls have led to one validation, of the last password 'aA1'.
C18_Witness ==
    /\ pc = "timeout"
    /\ DebounceMs > 0
    /\ timerCount = 3
    /\ Len(calls) = 1
    /\ password = <<97, 65, 49>>
    /\ calls[1].password = password
    /\ result = calls[1].report

\* C19: after reset() the password is '', result is undefined and isValidating is false,
\* and no debounced validation is pending any more: result stays undefined whatever time
\* passes, until setPassword or validate is called.
C19_Reset ==
    /\ [](pc = "reset"
              => /\ password = <<>>
                 /\ result = NoResult
                 /\ isValidating = FALSE
                 /\ timers = {}
                 /\ debounceTimerRef = NoTimer)
    /\ [][(pc = "reset" /\ pc' \notin {"setPassword", "validate"})
              => result' = NoResult /\ calls' = calls]_vars

\* reset() cancelled the one debounced validation, and twice its delay has passed since.
C19_Witness ==
    /\ pc = "reset"
    /\ DebounceMs = TickMs
    /\ timerCount = 1
    /\ calls = <<>>
    /\ elapsed >= 2 * TickMs
    /\ result = NoResult

\* C20: debounceMs = 0 makes validation instant: every setPassword(p) call leaves result
\* equal to validatePassword(p, options) as soon as the call returns.
C20_AsStated ==
    [][(DebounceMs = 0 /\ SetPasswordStep)
           => result' = validatePassword(bloomFilter, password', validatorOptions(options))]_vars

\* C21: when validateOnMount is true the hook validates immediately on mount: after
\* mounting, result is defined without any setPassword or validate call.
C21_AsStated ==
    (pc = "mount" /\ Opt(options, "validateOnMount", FALSE)) => result # NoResult

(***************************************************************************)
(* packages/react-components: PasswordInput                                *)
(*                                                                         *)
(* One rendered input.  password is its internalValue, result its          *)
(* validationResult, options its props (value, defaultValue, debounceMs,   *)
(* validateOnMount, validateOnChange), changes what onChange last got.     *)
(***************************************************************************)

InputValues == {<<>>, <<97>>, <<97, 65, 49>>}

InputProps ==
    {a @@ b @@ c @@ d :
        a \in {<<>>, [debounceMs |-> 0], [debounceMs |-> TickMs]},
        b \in {<<>>, [validateOnChange |-> FALSE]},
        c \in {<<>>, [validateOnMount |-> TRUE, defaultValue |-> <<97>>]},
        d \in {<<>>, [value |-> <<97>>]}}

\* const isControlled = controlledValue !== undefined
isControlled == "value" \in DOMAIN options

\* const value = isControlled ? controlledValue : internalValue
value == IF isControlled THEN options.value ELSE password

\* useState(defaultValue ?? ''), useState(undefined), useRef(null); no effect has run.
InitInput ==
    /\ options \in InputProps
    /\ password = Opt(options, "defaultValue", <<>>)
    /\ result = NoResult
    /\ pc = "ready"
    /\ bloomFilter = BLOOM_BUCKETS
    /\ added = {}
    /\ calls = <<>>
    /\ HookIdle
    /\ passwords = <<>>

\* performValidation(pw): what it leaves in result, the timer ref, the timers and the log
performValidation(pw) ==
    LET debounceMs == Opt(options, "debounceMs", DEFAULT_DEBOUNCE_MS)
        cleared ==
            IF debounceTimerRef # NoTimer THEN clearTimeout(timers, debounceTimerRef)
            ELSE timers
    IN  IF debounceMs = 0
        THEN /\ Len(calls) < MaxValidations
             /\ LET report == validatePassword(bloomFilter, pw, <<>>)
                IN  /\ result' = report
                    /\ calls' = Logged(calls, pw, <<>>, report)
             /\ debounceTimerRef' = NoTimer
             /\ timers' = cleared
             /\ UNCHANGED timerCount
        ELSE /\ timerCount < MaxTimers
             /\ timerCount' = timerCount + 1
             /\ debounceTimerRef' = timerCount + 1
             /\ timers' = setTimeout(cleared, timerCount + 1, pw, debounceMs)
             /\ UNCHANGED <<result, calls>>

\* useEffect(() => { if (validateOnMount && value) performValidation(String(value)) }, [])
InputMountEffect ==
    /\ pc = "ready"
    /\ IF Opt(options, "validateOnMount", FALSE) /\ Len(value) > 0
       THEN performValidation(value)
       ELSE UNCHANGED <<result, calls, debounceTimerRef, timers, timerCount>>
    /\ pc' = "mount"
    /\ UNCHANGED <<password, options, bloomFilter, added, passwords, isValidating, isMountedRef, elapsed,
                   changes>>

\* handleInputChange(event), event.target.value = newValue
handleInputChange(newValue) ==
    /\ Mounted
    /\ password' = IF isControlled THEN password ELSE newValue
    /\ changes' = <<newValue>>
    /\ IF Opt(options, "validateOnChange", TRUE)
       THEN performValidation(newValue)
       ELSE UNCHANGED <<result, calls, debounceTimerRef, timers, timerCount>>
    /\ elapsed' = 0
    /\ pc' = "handleInputChange"
    /\ UNCHANGED <<options, bloomFilter, added, passwords, isValidating, isMountedRef>>

\* handleKeyDown(event), event.key = 'Escape'
handleKeyDownEscape ==
    /\ Mounted
    /\ password' = IF isControlled THEN password ELSE <<>>
    /\ changes' = << <<>> >>
    /\ result' = NoResult
    /\ pc' = "Escape"
    /\ UNCHANGED <<options, bloomFilter, added, passwords, calls, isValidating, debounceTimerRef,
                   isMountedRef, timers, timerCount, elapsed>>

\* The callback of performValidation's timeout, its delay used up.
InputTimeoutCallback(timer) ==
    /\ timer \in timers
    /\ timer.remaining <= 0
    /\ LET report == validatePassword(bloomFilter, timer.newPassword, <<>>)
       IN  /\ result' = report
           /\ calls' = Logged(calls, timer.newPassword, <<>>, report)
    /\ debounceTimerRef' = NoTimer
    /\ timers' = timers \ {timer}
    /\ pc' = "timeout"
    /\ UNCHANGED <<password, options, bloomFilter, added, passwords, isValidating, isMountedRef,
                   timerCount, elapsed, changes>>

NextInput ==
    \/ InputMountEffect
    \/ \E newValue \in InputValues : handleInputChange(newValue)
    \/ handleKeyDownEscape
    \/ \E timer \in timers : InputTimeoutCallback(timer)
    \/ UnmountCleanup
    \/ Tick

SpecInput == InitInput /\ [][NextInput]_vars

\* C22: pressing Escape clears the input (onChange('') is called, and the internal value
\* becomes '' in uncontrolled mode) and resets validation: in every interleaving of
\* typing, debounce-timer expiry and Escape, validationResult is undefined after Escape
\* and stays undefined until the next input change.
C22_AsStated ==
    /\ [][pc' = "Escape"
              => /\ changes' = << <<>> >>
                 /\ ~isControlled => password' = <<>>
                 /\ result' = NoResult]_vars
    /\ [][(pc = "Escape" /\ pc' # "handleInputChange") => result' = NoResult]_vars

\* C23: unmounting the hook cancels a pending debounce timer: once unmounted no timer is
\* pending, no debounced validation runs and result is not set, whatever time passes.
C23_Unmount ==
    /\ [](pc = "unmount" => timers = {})
    /\ [][pc = "unmount" => (result' = result /\ calls' = calls /\ pc' = "unmount")]_vars

\* The hook was unmounted with its first debounced validation pending, and the delay has
\* passed since without a validation.
C23_Witness ==
    /\ pc = "unmount"
    /\ DebounceMs > 0
    /\ timerCount = 1
    /\ debounceTimerRef = 1
    /\ calls = <<>>
    /\ elapsed >= DebounceMs
    /\ result = NoResult

(***************************************************************************)
(* Calls of getHashes(str, HASH_COUNT, BLOOM_SIZE) for every string over   *)
(* a z up to MaxHashLen; from seven characters on the hashes have wrapped  *)
(* and hash1 + i * hash2 passes 2^32.                                      *)
(***************************************************************************)

MaxHashLen == 7

HashStrings == StringsUpTo({97, 122}, MaxHashLen)

InitHashes ==
    /\ password \in HashStrings
    /\ options = <<>>
    /\ result = NoResult
    /\ pc = "ready"
    /\ bloomFilter = <<>>
    /\ added = {}
    /\ calls = <<>>
    /\ HookIdle
    /\ passwords = <<>>

CallGetHashes ==
    /\ pc = "ready"
    /\ result' = getHashes(password, HASH_COUNT, BLOOM_SIZE)
    /\ pc' = "getHashes"
    /\ UNCHANGED <<password, options, bloomFilter, added, calls, hookVars, passwords>>

NextHashes == CallGetHashes

SpecHashes == InitHashes /\ [][NextHashes]_vars

\* A 32-bit value, given as its two halves, modulo m.
Mod32(hash, m) == ((hash.hi % m) * (Half % m) + hash.lo) % m

\* The sum of two 32-bit values, wrapped to 32 bits.
Add32(a, b) ==
    LET lo == a.lo + b.lo
    IN  [hi |-> (a.hi + b.hi + (lo \div Half)) % Half, lo |-> lo % Half]

\* h1 + i * h2 wrapped to 32 bits, by i additions.
RECURSIVE WrappedSum(_, _, _)
WrappedSum(h1, h2, i) == IF i = 0 THEN h1 ELSE Add32(WrappedSum(h1, h2, i - 1), h2)

\* h1 + i * h2 is 2^32 or more.
PassesWordSize(h1, h2, i) ==
    h1.hi + i * h2.hi + ((h1.lo + i * h2.lo) \div Half) >= Half

MaxLines == 3

BuildLines ==
    {<<97, 98>>, <<32, 65, 98, 32>>, <<>>, <<49, 50, 51, 52>>, <<81, 119, 69>>}

RECURSIVE LinesUpTo(_)
LinesUpTo(n) ==
    IF n = 0 THEN {<<>>}
    ELSE LET shorter == LinesUpTo(n - 1)
         IN  shorter \cup {Append(file, line) : file \in shorter, line \in BuildLines}

\* .map((p) => p.trim()).filter((p) => p.length > 0), from line n (1-based)
RECURSIVE ReadPasswords(_, _)
ReadPasswords(lines, n) ==
    IF n > Len(lines) THEN <<>>
    ELSE (IF Len(Trim(lines[n])) > 0 THEN <<Trim(lines[n])>> ELSE <<>>)
             \o ReadPasswords(lines, n + 1)

InitBuild ==
    /\ passwords \in {ReadPasswords(file, 1) : file \in LinesUpTo(MaxLines)}
    /\ password = <<>>
    /\ options = <<>>
    /\ result = NoResult
    /\ pc = "ready"
    /\ bloomFilter = EmptyFilter
    /\ added = {}
    /\ calls = <<>>
    /\ HookIdle

\* for (const password of passwords) { add(password) }; the sampling of random strings
\* and the fill ratio that follow only read the filter and log.
AddAll ==
    /\ pc = "ready"
    /\ bloomFilter' = BuildFilter(bloomFilter, passwords, 1)
    /\ added' = {passwords[n] : n \in DOMAIN passwords}
    /\ pc' = "added"
    /\ UNCHANGED <<password, options, result, calls, hookVars, passwords>>

\* The entries of passwords that test() does not find, in order.
NotFound(filter, entries) == SelectSeq(entries, LAMBDA entry : ~test(filter, entry))

\* Verify all passwords can be found; process.exit(1) if one is not.
VerifyAll ==
    /\ pc = "added"
    /\ pc' = IF Len(NotFound(bloomFilter, passwords)) > 0 THEN "exit(1)" ELSE "verified"
    /\ UNCHANGED <<password, options, result, bloomFilter, added, calls, hookVars, passwords>>

\* Writing the output ahead of the verification
WriteOutputUnverified ==
    /\ pc = "added"
    /\ result' = [output |-> bloomFilter]
    /\ pc' = "written"
    /\ UNCHANGED <<password, options, bloomFilter, added, calls, hookVars, passwords>>

\* fs.writeFileSync(outputFile, output, 'utf-8')
WriteOutput ==
    /\ pc = "verified"
    /\ result' = [output |-> bloomFilter]
    /\ pc' = "written"
    /\ UNCHANGED <<password, options, bloomFilter, added, calls, hookVars, passwords>>

NextBuild == AddAll \/ VerifyAll \/ WriteOutput

SpecBuild == InitBuild /\ [][NextBuild]_vars

\* C25: every corpus entry is re-tested after all insertions; the output is written only
\* by a run whose verification found every entry, and holds then a filter in which every
\* entry is found; a run in which an entry is not found exits with status 1 with nothing
\* written.
C25_VerifiedBeforeWrite ==
    /\ [](result # NoResult
              => /\ pc = "written"
                 /\ \A n \in DOMAIN passwords : test(result.output, passwords[n]))
    /\ [](pc = "exit(1)" => result = NoResult /\ Len(NotFound(bloomFilter, passwords)) > 0)
    /\ [][result' # result
              => /\ pc = "verified"
                 /\ Len(NotFound(bloomFilter, passwords)) = 0
                 /\ added = {passwords[n] : n \in DOMAIN passwords}]_vars
    /\ [][pc = "exit(1)" => UNCHANGED vars]_vars

\* The output has been written for a corpus of three entries, one of them in upper case.
C25_Witness ==
    /\ pc = "written"
    /\ Len(passwords) = 3
    /\ <<81, 119, 69>> \in added
    /\ result = [output |-> bloomFilter]
    /\ \A n \in DOMAIN passwords : test(result.output, passwords[n])

\* C26: the shortest keyboard pattern that can be matched is 3 characters long:
\* validateKeyboardPattern passes every password of fewer than 3 characters.
C26_AsStated ==
    (pc = "validateKeyboardPattern" /\ Len(password) < 3) => result.passed

\* The policy's minLength and maxLength with their defaults.
MinLength == Opt(options, "minLength", 8)

MaxLength == Opt(options, "maxLength", 128)

\* C27 as stated: with minLength > maxLength validateLength returns a well-formed failing
\* result for every password length, and every length fails in the max-length
\* ('at most') branch.
C27_AsStated ==
    (pc = "validateLength" /\ MinLength > MaxLength)
        => /\ ~result.passed
           /\ "message" \in DOMAIN result
           /\ result.message
                  = "Password must be at most " \o ToString(MaxLength) \o " characters"

\* C27: with minLength > maxLength validateLength returns a well-formed failing result for
\* every password length: lengths below minLength fail in the min-length ('at least')
\* branch, which is tested first, and all other lengths in the max-length ('at most')
\* branch.
C27_MalformedPolicy ==
    (pc = "validateLength" /\ MinLength > MaxLength)
        => /\ ~result.passed
           /\ DOMAIN result = {"passed", "message"}
           /\ result.message
                  = IF Len(password) < MinLength
                    THEN "Password must be at least " \o ToString(MinLength) \o " characters"
                    ELSE "Password must be at most " \o ToString(MaxLength) \o " characters"

\* validateLength has failed a 4-character password under minLength 5, maxLength 3 in the
\* min-length branch.
C27_Witness ==
    /\ pc = "validateLength"
    /\ options = [minLength |-> 5, maxLength |-> 3]
    /\ Len(password) = 4
    /\ result = [passed |-> FALSE, message |-> "Password must be at least 5 characters"]

C29_AsStated == Mounted => (isValidating <=> timers # {})

====
